---- MODULE Spec2Model ----
(***************************************************************************)
(* renovate-jira-bot: a sequential CI job that lists the open merge        *)
(* requests of the Renovate user, skips those that hold a skip-keyword or  *)
(* an existing Jira key, and for the others creates a Jira issue and       *)
(* comments the key back on the merge request.                             *)
(*                                                                         *)
(* Two revisions of the program are in the repository:                     *)
(*   "bot" : src/unnamed/part_000 (keyword filter, link detector, comment) *)
(*   "v1"  : src/main.go          (one issue per merge request, no checks) *)
(*                                                                         *)
(* A text is a sequence of chunks.  A chunk is one character ("P", "-",    *)
(* "1", ...) or a literal of a format string, which holds no character a   *)
(* pattern of the model looks for.                                         *)
(***************************************************************************)
EXTENDS Integers, Sequences, FiniteSets, TLC

\* ---------------------------------------------------------------- bounds
\* merge requests open at GitLab
MaxMRs == 2
\* runs of the job, one after the other
MaxRuns == 2
\* longest text drawn for the detector and the keyword filter (SpecFn)
MaxTextLen == 4

VARIABLES
    env_DRY_RUN,        \* os.Getenv("DRY_RUN"), a string
    env_KEYWORDS,       \* os.Getenv("KEYWORDS_TO_SKIP"), a text
    env_PROJECT_KEY,    \* os.Getenv("JIRA_PROJECT_KEY"), a text
    env_USERNAME,       \* os.Getenv("RENOVATE_USERNAME"), a string
    flag_dry_run,       \* the -dry-run flag of src/main.go
    variant,            \* which revision runs: "bot" or "v1"
    gitlabMRs,          \* GitLab: the open merge requests of the project
    gitlabNotes,        \* GitLab: iid -> the note bodies of the merge request
    jiraIssues,         \* Jira: the issues created, in order
    pc,                 \* where main() stands
    dryRun,             \* main's dryRun
    mrs,                \* main's mrs, the result of getRenovateMRs
    idx,                \* position of the loop in mrs (1-based)
    jiraKey,            \* main's jiraKey
    exitCode,           \* -1 while running, else the exit status
    run,                \* number of the current run
    trace,              \* what the current run did, in order
    linkedAtStart       \* iids that held a Jira key when the run started

vars == <<env_DRY_RUN, env_KEYWORDS, env_PROJECT_KEY, env_USERNAME, flag_dry_run,
          variant, gitlabMRs, gitlabNotes, jiraIssues, pc, dryRun, mrs, idx,
          jiraKey, exitCode, run, trace, linkedAtStart>>

envVars == <<env_DRY_RUN, env_KEYWORDS, env_PROJECT_KEY, env_USERNAME, flag_dry_run,
             variant, gitlabMRs>>

\* ------------------------------------------------------------ characters
Digits == {"0", "1", "2", "3", "4", "5", "6", "7", "8", "9"}

UpperChars == <<"A", "B", "C", "D", "E", "F", "G", "H", "I", "J", "K", "L", "M",
                "N", "O", "P", "Q", "R", "S", "T", "U", "V", "W", "X", "Y", "Z">>

LowerChars == <<"a", "b", "c", "d", "e", "f", "g", "h", "i", "j", "k", "l", "m",
                "n", "o", "p", "q", "r", "s", "t", "u", "v", "w", "x", "y", "z">>

\* unicode.ToLower on one character
ToLowerChar(c) ==
    IF \E k \in 1..Len(UpperChars) : UpperChars[k] = c
    THEN LowerChars[CHOOSE k \in 1..Len(UpperChars) : UpperChars[k] = c]
    ELSE c

\* strings.ToLower
ToLower(text) == [k \in 1..Len(text) |-> ToLowerChar(text[k])]

\* strings.Contains: substr occurs in text (the empty substr occurs in every text)
Contains(text, substr) ==
    \E s \in 0..(Len(text) - Len(substr)) :
        \A k \in 1..Len(substr) : text[s + k] = substr[k]

\* strings.Split(s, ","): one field more than there are commas, "" gives [""]
RECURSIVE Split(_)
Split(s) ==
    IF \A k \in 1..Len(s) : s[k] # ","
    THEN <<s>>
    ELSE LET c == CHOOSE k \in 1..Len(s) :
                      s[k] = "," /\ \A j \in 1..(k - 1) : s[j] # ","
         IN  <<SubSeq(s, 1, c - 1)>> \o Split(SubSeq(s, c + 1, Len(s)))

\* strconv.Itoa for n >= 0
DigitChar(d) == CASE d = 0 -> "0" [] d = 1 -> "1" [] d = 2 -> "2" [] d = 3 -> "3"
                  [] d = 4 -> "4" [] d = 5 -> "5" [] d = 6 -> "6" [] d = 7 -> "7"
                  [] d = 8 -> "8" [] OTHER -> "9"

RECURSIVE Itoa(_)
Itoa(n) == IF n < 10 THEN <<DigitChar(n)>> ELSE Itoa(n \div 10) \o <<DigitChar(n % 10)>>

\* strconv.ParseBool: the value, and whether the string parsed
ParseBool(s) ==
    CASE s \in {"1", "t", "T", "TRUE", "true", "True"} -> [value |-> TRUE, ok |-> TRUE]
      [] s \in {"0", "f", "F", "FALSE", "false", "False"} -> [value |-> FALSE, ok |-> TRUE]
      [] OTHER -> [value |-> FALSE, ok |-> FALSE]

\* getEnv(key, fallback)
getEnv(value, fallback) == IF value = "" THEN fallback ELSE value

\* ------------------------------------------------------------- detector
\* end of the longest run of digits that starts at q
RECURSIVE DigitsEnd(_, _)
DigitsEnd(text, q) ==
    IF q + 1 <= Len(text) /\ text[q + 1] \in Digits THEN DigitsEnd(text, q + 1) ELSE q

\* mutant: the pattern is `<projectKey>-\d\d+`, one digit is not enough
MatchesAt_TwoDigits(text, p, projectKey) ==
    LET n == Len(projectKey)
    IN  /\ p + n + 2 <= Len(text)
        /\ \A k \in 1..n : text[p + k - 1] = projectKey[k]
        /\ text[p + n] = "-"
        /\ text[p + n + 1] \in Digits
        /\ text[p + n + 2] \in Digits

\* the regexp QuoteMeta(projectKey) + `-\d+` matches at position p
MatchesAt(text, p, projectKey) ==
    LET n == Len(projectKey)
    IN  /\ p + n + 1 <= Len(text)
        /\ \A k \in 1..n : text[p + k - 1] = projectKey[k]
        /\ text[p + n] = "-"
        /\ text[p + n + 1] \in Digits

\* regexp.FindString: the leftmost match, its digits taken greedily, or ""
FindString(text, projectKey) ==
    LET starts == {p \in 1..Len(text) : MatchesAt(text, p, projectKey)}
    IN  IF starts = {}
        THEN <<>>
        ELSE LET p == CHOOSE q \in starts : \A r \in starts : q <= r
             IN  SubSeq(text, p, DigitsEnd(text, p + Len(projectKey) + 1))

\* mutant: the pattern is anchored at the start of the text
hasJiraKey_Anchored(text, projectKey) ==
    LET match == IF MatchesAt(text, 1, projectKey)
                 THEN SubSeq(text, 1, DigitsEnd(text, Len(projectKey) + 2))
                 ELSE <<>>
    IN  [match |-> match, found |-> match # <<>>]

hasJiraKey(text, projectKey) ==
    LET match == FindString(text, projectKey)
    IN  [match |-> match, found |-> match # <<>>]

containsIgnoreCase(text, substr) == Contains(ToLower(text), ToLower(substr))

containsKeyword(mr, keywordsEnv) ==
    LET keywords == Split(keywordsEnv)
    IN  \E k \in 1..Len(keywords) :
            \/ containsIgnoreCase(mr.title, keywords[k])
            \/ containsIgnoreCase(mr.description, keywords[k])

\* mutant: only the first note is looked at
notesHaveJiraKey_FirstOnly(notes, projectKey) ==
    Len(notes) > 0 /\ hasJiraKey(notes[1], projectKey).found

\* the loop over the notes of mrHasLinkedJira
notesHaveJiraKey(notes, projectKey) ==
    \E k \in 1..Len(notes) : hasJiraKey(notes[k], projectKey).found

\* mutant: the comment names no key
commentText_NoKey(key) == <<"Jira issue created">>

\* the comment commentOnMR formats
commentText(key) ==
    <<"Jira issue created: [">> \o key \o <<"](", "JIRA_URL", "/browse/">> \o key \o <<")">>

DryKey == <<"D", "R", "Y", "-", "1", "2", "3">>

\* ------------------------------------------------------------ the world
\* JSON of one merge request, as GitLab returns it
MR(iid, title, description, author) ==
    [iid |-> iid, title |-> title, description |-> description,
     web_url |-> <<"web_url", iid>>, author |-> author]

KeyText == <<"P", "-", "4", "2">>

MRKinds == {"plain", "keyInTitle", "keyInDescription", "keywordInDescription",
            "keyInNote", "human"}

SampleMR(kind, iid) ==
    CASE kind = "keyInTitle" -> MR(iid, <<"x", " ">> \o KeyText, <<>>, "renovate[bot]")
      [] kind = "keyInDescription" -> MR(iid, <<"x">>, KeyText \o <<"x">>, "renovate[bot]")
      [] kind = "keywordInDescription" -> MR(iid, <<"x">>, <<"a", "K", "w">>, "renovate[bot]")
      [] kind = "human" -> MR(iid, <<"x">>, <<>>, "alice")
      [] OTHER -> MR(iid, <<"x">>, <<>>, "renovate[bot]")

SampleNotes(kind) ==
    IF kind = "keyInNote" THEN <<<<"l", "g", "t", "m">>, <<"s", "e", "e", " ">> \o KeyText>>
    ELSE <<>>

\* the texts of at most n chunks over the alphabet
RECURSIVE TextsUpTo(_, _)
TextsUpTo(alphabet, n) ==
    IF n = 0 THEN {<<>>}
    ELSE LET shorter == TextsUpTo(alphabet, n - 1)
         IN  shorter \cup {Append(t, c) : t \in shorter, c \in alphabet}

\* a text holds a substring <projectKey>-<one or more digits>
HoldsKey(text, projectKey) ==
    \E a \in 1..Len(text) : \E b \in a..Len(text) :
        LET s == SubSeq(text, a, b)
            n == Len(projectKey)
        IN  /\ Len(s) >= n + 2
            /\ SubSeq(s, 1, n) = projectKey
            /\ s[n + 1] = "-"
            /\ \A k \in (n + 2)..Len(s) : s[k] \in Digits

\* the merge request, as GitLab holds it, has a linked ticket
Linked(mr, notes, projectKey) ==
    \/ HoldsKey(mr.title, projectKey)
    \/ HoldsKey(mr.description, projectKey)
    \/ \E k \in 1..Len(notes) : HoldsKey(notes[k], projectKey)

LinkedNow(mrList, notesOf, projectKey) ==
    {mrList[k].iid : k \in {j \in 1..Len(mrList) :
                              Linked(mrList[j], notesOf[mrList[j].iid], projectKey)}}

Ev(op, i, res, text) == [op |-> op, i |-> i, res |-> res, text |-> text]

\* ------------------------------------------------------------- responses
ListResponses == {"transport error, no response", "transport error, response",
                  "200, JSON list", "200, not a JSON list",
                  "not 200, JSON list", "not 200, not a JSON list"}

\* "JSON list" carries every note of the merge request (one page of the notes API)
NotesResponses == {"transport error", "not a JSON list", "JSON list"}

\* "2xx, key" is Jira's reply to an issue it created; "2xx, not JSON" is a reply
\* that did not come from Jira (a proxy's page), and no issue exists after it
IssueResponses == {"transport error", "status >= 300", "2xx, not JSON", "2xx, key"}

CommentResponses == {"transport error", "status >= 300", "2xx"}

\* ---------------------------------------------------------------- Init
InitRun(start) ==
    /\ pc = start
    /\ dryRun = FALSE
    /\ mrs = <<>>
    /\ idx = 0
    /\ jiraKey = <<>>
    /\ exitCode = -1
    /\ run = 1
    /\ trace = <<>>
    /\ jiraIssues = <<>>

InitWorld ==
    /\ \E kinds \in [1..MaxMRs -> MRKinds] :
        /\ gitlabMRs = [k \in 1..MaxMRs |-> SampleMR(kinds[k], k)]
        /\ gitlabNotes = [k \in 1..MaxMRs |-> SampleNotes(kinds[k])]
    /\ env_PROJECT_KEY = <<"P">>
    /\ linkedAtStart = LinkedNow(gitlabMRs, gitlabNotes, env_PROJECT_KEY)

Init ==
    /\ variant = "bot"
    /\ env_DRY_RUN \in {"", "true", "false", "yes"}
    /\ env_KEYWORDS \in {<<>>, <<"k", "w", ",", "z">>}
    /\ env_USERNAME = ""
    /\ flag_dry_run = FALSE
    /\ InitWorld
    /\ InitRun("main")

\* ------------------------------------------------- part_000: the bot
MainStart ==
    /\ variant = "bot"
    /\ pc = "main"
    /\ dryRun' = IF env_DRY_RUN = "" THEN TRUE ELSE ParseBool(env_DRY_RUN).value
    /\ pc' = "getRenovateMRs"
    /\ UNCHANGED <<envVars, gitlabNotes, jiraIssues, mrs, idx, jiraKey, exitCode,
                   run, trace, linkedAtStart>>

\* getRenovateMRs on one response: the list, whether it failed, whether it panicked
getRenovateMRs(response, body, username) ==
    IF response = "transport error, no response"
    THEN [mrs |-> <<>>, err |-> TRUE, panic |-> TRUE]
    ELSE IF response # "200, JSON list"
    THEN [mrs |-> <<>>, err |-> TRUE, panic |-> FALSE]
    ELSE [mrs |-> SelectSeq(body, LAMBDA mr : mr.author = getEnv(username, "renovate[bot]")),
          err |-> FALSE, panic |-> FALSE]

FetchMRs ==
    /\ variant = "bot"
    /\ pc = "getRenovateMRs"
    /\ \E response \in ListResponses :
        LET r == getRenovateMRs(response, gitlabMRs, env_USERNAME)
        IN  /\ trace' = Append(trace, Ev("GET merge_requests", 0, response, <<>>))
            /\ IF r.err
               THEN /\ pc' = "exit"
                    /\ exitCode' = IF r.panic THEN 2 ELSE 1
                    /\ UNCHANGED <<mrs, idx>>
               ELSE /\ pc' = "loop"
                    /\ mrs' = r.mrs
                    /\ idx' = 1
                    /\ UNCHANGED exitCode
    /\ UNCHANGED <<envVars, gitlabNotes, jiraIssues, dryRun, jiraKey, run, linkedAtStart>>

\* mutant: the failure ends the run
continueLoop_Abort(i) == [idx |-> i, pc |-> "exit"]

\* "continue": the loop goes on with the next merge request
continueLoop(i) == [idx |-> i + 1, pc |-> "loop"]

LoopDone ==
    /\ variant = "bot"
    /\ pc = "loop"
    /\ idx > Len(mrs)
    /\ pc' = "done"
    /\ exitCode' = 0
    /\ UNCHANGED <<envVars, gitlabNotes, jiraIssues, dryRun, mrs, idx, jiraKey, run,
                   trace, linkedAtStart>>

KeywordStep ==
    /\ variant = "bot"
    /\ pc = "loop"
    /\ idx <= Len(mrs)
    /\ LET skip == containsKeyword(mrs[idx], env_KEYWORDS)
       IN  /\ trace' = Append(trace, Ev("containsKeyword", idx,
                                         IF skip THEN "true" ELSE "false", <<>>))
           /\ IF skip
              THEN idx' = idx + 1 /\ pc' = "loop"
              ELSE idx' = idx /\ pc' = "mrHasLinkedJira"
    /\ UNCHANGED <<envVars, gitlabNotes, jiraIssues, dryRun, mrs, jiraKey, exitCode,
                   run, linkedAtStart>>

TitleDescriptionStep ==
    /\ variant = "bot"
    /\ pc = "mrHasLinkedJira"
    /\ LET inTitle == hasJiraKey(mrs[idx].title, env_PROJECT_KEY).found
           inDesc == hasJiraKey(mrs[idx].description, env_PROJECT_KEY).found
       IN  IF inTitle
           THEN /\ trace' = Append(trace, Ev("hasJiraKey(title)", idx, "true", <<>>))
                /\ idx' = idx + 1
                /\ pc' = "loop"
           ELSE IF inDesc
           THEN /\ trace' = trace \o <<Ev("hasJiraKey(title)", idx, "false", <<>>),
                                       Ev("hasJiraKey(description)", idx, "true", <<>>)>>
                /\ idx' = idx + 1
                /\ pc' = "loop"
           ELSE /\ trace' = trace \o <<Ev("hasJiraKey(title)", idx, "false", <<>>),
                                       Ev("hasJiraKey(description)", idx, "false", <<>>)>>
                /\ idx' = idx
                /\ pc' = "notes"
    /\ UNCHANGED <<envVars, gitlabNotes, jiraIssues, dryRun, mrs, jiraKey, exitCode,
                   run, linkedAtStart>>

NotesStep ==
    /\ variant = "bot"
    /\ pc = "notes"
    /\ \E response \in NotesResponses :
        IF response # "JSON list"
        THEN /\ trace' = Append(trace, Ev("GET notes", idx, "err", <<>>))
             /\ idx' = continueLoop(idx).idx
             /\ pc' = continueLoop(idx).pc
        ELSE LET found == notesHaveJiraKey(gitlabNotes[mrs[idx].iid], env_PROJECT_KEY)
             IN  /\ trace' = trace \o <<Ev("GET notes", idx, "ok", <<>>),
                                        Ev("hasJiraKey(notes)", idx,
                                           IF found THEN "true" ELSE "false", <<>>)>>
                 /\ IF found
                    THEN idx' = idx + 1 /\ pc' = "loop"
                    ELSE idx' = idx /\ pc' = "createJiraIssue"
    /\ UNCHANGED <<envVars, gitlabNotes, jiraIssues, dryRun, mrs, jiraKey, exitCode,
                   run, linkedAtStart>>

\* mutant: the dry-run check is missing
createJiraIssue_NoDryRun(title, description, isDry, response, projectKey, issues) ==
    IF response = "2xx, key"
    THEN LET key == projectKey \o <<"-">> \o Itoa(Len(issues) + 1)
         IN  [key |-> key, err |-> FALSE, sent |-> TRUE,
              issues |-> Append(issues, [key |-> key, summary |-> title,
                                          description |-> description])]
    ELSE [key |-> <<>>, err |-> TRUE, sent |-> TRUE, issues |-> issues]

\* createJiraIssue on one response: the key, the error, and what reached Jira
createJiraIssue(title, description, isDry, response, projectKey, issues) ==
    IF isDry
    THEN [key |-> DryKey, err |-> FALSE, sent |-> FALSE, issues |-> issues]
    ELSE IF response = "2xx, key"
    THEN LET key == projectKey \o <<"-">> \o Itoa(Len(issues) + 1)
         IN  [key |-> key, err |-> FALSE, sent |-> TRUE,
              issues |-> Append(issues, [key |-> key, summary |-> title,
                                          description |-> description])]
    ELSE [key |-> <<>>, err |-> TRUE, sent |-> TRUE, issues |-> issues]

CreateStep ==
    /\ variant = "bot"
    /\ pc = "createJiraIssue"
    /\ \E response \in IssueResponses :
        LET r == createJiraIssue(mrs[idx].title, mrs[idx].web_url, dryRun, response,
                                 env_PROJECT_KEY, jiraIssues)
        IN  /\ jiraIssues' = r.issues
            /\ jiraKey' = r.key
            /\ trace' = trace
                 \o (IF r.sent
                     THEN <<Ev("POST issue", idx, IF r.err THEN "err" ELSE "ok", <<>>)>>
                     ELSE <<>>)
                 \o <<Ev("createJiraIssue", idx, IF r.err THEN "err" ELSE "ok", r.key)>>
            /\ IF r.err
               THEN idx' = continueLoop(idx).idx /\ pc' = continueLoop(idx).pc
               ELSE idx' = idx /\ pc' = "commentOnMR"
    /\ UNCHANGED <<envVars, gitlabNotes, dryRun, mrs, exitCode, run, linkedAtStart>>

\* commentOnMR on one response: the error, what reached GitLab, the notes after it
commentOnMR(key, isDry, response, notes) ==
    LET comment == commentText(key)
    IN  IF isDry
        THEN [comment |-> comment, err |-> FALSE, sent |-> FALSE, notes |-> notes]
        ELSE IF response = "2xx"
        THEN [comment |-> comment, err |-> FALSE, sent |-> TRUE,
              notes |-> Append(notes, comment)]
        ELSE [comment |-> comment, err |-> TRUE, sent |-> TRUE, notes |-> notes]

CommentStep ==
    /\ variant = "bot"
    /\ pc = "commentOnMR"
    /\ \E response \in CommentResponses :
        LET iid == mrs[idx].iid
            r == commentOnMR(jiraKey, dryRun, response, gitlabNotes[iid])
        IN  /\ gitlabNotes' = [gitlabNotes EXCEPT ![iid] = r.notes]
            /\ trace' = trace
                 \o (IF r.sent
                     THEN <<Ev("POST notes", idx, IF r.err THEN "err" ELSE "ok", r.comment)>>
                     ELSE <<>>)
                 \o <<Ev("commentOnMR", idx, IF r.err THEN "err" ELSE "ok", r.comment)>>
    /\ idx' = idx + 1
    /\ pc' = "loop"
    /\ UNCHANGED <<envVars, jiraIssues, dryRun, mrs, jiraKey, exitCode, run, linkedAtStart>>

\* the CI schedule starts the job again once the last run has ended
NextRun ==
    /\ pc \in {"done", "exit"}
    /\ run < MaxRuns
    /\ run' = run + 1
    /\ pc' = IF variant = "bot" THEN "main" ELSE "v1_main"
    /\ dryRun' = FALSE
    /\ mrs' = <<>>
    /\ idx' = 0
    /\ jiraKey' = <<>>
    /\ exitCode' = -1
    /\ trace' = <<>>
    /\ linkedAtStart' = LinkedNow(gitlabMRs, gitlabNotes, env_PROJECT_KEY)
    /\ UNCHANGED <<envVars, gitlabNotes, jiraIssues>>

Next ==
    \/ MainStart
    \/ FetchMRs
    \/ LoopDone
    \/ KeywordStep
    \/ TitleDescriptionStep
    \/ NotesStep
    \/ CreateStep
    \/ CommentStep
    \/ NextRun

Spec == Init /\ [][Next]_vars

\* ------------------------------------------------- src/main.go: v1
V1Start ==
    /\ variant = "v1"
    /\ pc = "v1_main"
    /\ dryRun' = flag_dry_run
    /\ pc' = "v1_getRenovateMRs"
    /\ UNCHANGED <<envVars, gitlabNotes, jiraIssues, mrs, idx, jiraKey, exitCode,
                   run, trace, linkedAtStart>>

\* v1's getRenovateMRs: the status of the response is not looked at
v1_getRenovateMRs(response, body, username) ==
    IF response \in {"transport error, no response", "transport error, response",
                     "200, not a JSON list", "not 200, not a JSON list"}
    THEN [mrs |-> <<>>, err |-> TRUE]
    ELSE [mrs |-> SelectSeq(body, LAMBDA mr : mr.author = username), err |-> FALSE]

V1FetchMRs ==
    /\ variant = "v1"
    /\ pc = "v1_getRenovateMRs"
    /\ \E response \in ListResponses :
        LET r == v1_getRenovateMRs(response, gitlabMRs, env_USERNAME)
        IN  /\ trace' = Append(trace, Ev("GET merge_requests", 0, response, <<>>))
            /\ IF r.err
               THEN /\ pc' = "exit"
                    /\ exitCode' = 1
                    /\ UNCHANGED <<mrs, idx>>
               ELSE /\ pc' = "v1_loop"
                    /\ mrs' = r.mrs
                    /\ idx' = 1
                    /\ UNCHANGED exitCode
    /\ UNCHANGED <<envVars, gitlabNotes, jiraIssues, dryRun, jiraKey, run, linkedAtStart>>

V1LoopDone ==
    /\ variant = "v1"
    /\ pc = "v1_loop"
    /\ idx > Len(mrs)
    /\ pc' = "done"
    /\ exitCode' = 0
    /\ UNCHANGED <<envVars, gitlabNotes, jiraIssues, dryRun, mrs, idx, jiraKey, run,
                   trace, linkedAtStart>>

\* v1's createJiraIssue on one response: the error, and what reached Jira
v1_createJiraIssue(title, description, isDry, response, projectKey, issues) ==
    IF isDry
    THEN [err |-> FALSE, sent |-> FALSE, issues |-> issues]
    ELSE IF response = "2xx, key"
    THEN [err |-> FALSE, sent |-> TRUE,
          issues |-> Append(issues, [key |-> projectKey \o <<"-">> \o Itoa(Len(issues) + 1),
                                      summary |-> title, description |-> description])]
    ELSE [err |-> response # "2xx, not JSON", sent |-> TRUE, issues |-> issues]

V1CreateStep ==
    /\ variant = "v1"
    /\ pc = "v1_loop"
    /\ idx <= Len(mrs)
    /\ \E response \in IssueResponses :
        LET r == v1_createJiraIssue(mrs[idx].title, mrs[idx].web_url, dryRun, response,
                                    env_PROJECT_KEY, jiraIssues)
        IN  /\ jiraIssues' = r.issues
            /\ trace' = trace
                 \o (IF r.sent
                     THEN <<Ev("POST issue", idx, IF r.err THEN "err" ELSE "ok", <<>>)>>
                     ELSE <<>>)
                 \o <<Ev("createJiraIssue", idx, IF r.err THEN "err" ELSE "ok", <<>>)>>
    /\ idx' = idx + 1
    /\ pc' = "v1_loop"
    /\ UNCHANGED <<envVars, gitlabNotes, dryRun, mrs, jiraKey, exitCode, run, linkedAtStart>>

InitAll ==
    /\ variant \in {"bot", "v1"}
    /\ IF variant = "bot"
       THEN /\ env_DRY_RUN \in {"", "true", "false", "yes"}
            /\ env_KEYWORDS \in {<<>>, <<"k", "w", ",", "z">>}
            /\ env_USERNAME = ""
            /\ flag_dry_run = FALSE
       ELSE /\ env_DRY_RUN = ""
            /\ env_KEYWORDS = <<>>
            /\ env_USERNAME \in {"", "renovate[bot]"}
            /\ flag_dry_run \in BOOLEAN
    /\ InitWorld
    /\ InitRun(IF variant = "bot" THEN "main" ELSE "v1_main")

NextAll ==
    \/ Next
    \/ V1Start
    \/ V1FetchMRs
    \/ V1LoopDone
    \/ V1CreateStep

SpecAll == InitAll /\ [][NextAll]_vars

\* The runs in which a merge request can fail: writes are on, the keyword list
\* is set, and every merge request is one of the Renovate user that still needs
\* its notes read (v1 reads no notes: its merge requests have none).
InitLive ==
    /\ InitAll
    /\ IF variant = "bot"
       THEN env_DRY_RUN = "false" /\ env_KEYWORDS # <<>>
       ELSE ~flag_dry_run /\ env_USERNAME = "renovate[bot]"
    /\ \A k \in 1..MaxMRs :
        /\ gitlabMRs[k].author = "renovate[bot]"
        /\ gitlabMRs[k].title = <<"x">>
        /\ gitlabMRs[k].description = <<>>
        /\ variant = "v1" => gitlabNotes[k] = <<>>

\* both revisions, each step taken as long as one is possible: the job is one
\* sequential process, and every call returns with one of its responses
LiveSpecAll == InitLive /\ [][NextAll]_vars /\ WF_vars(NextAll)

\* ------------------------------------- the detector and the filter alone
\* One merge request of the Renovate user.  One of its three texts (title,
\* description, a note) is any text of at most MaxTextLen characters over
\* FnAlphabet; a later text holds a key or nothing.
FnAlphabet == {"P", "-", "1"}

FnOthers == {<<>>, <<"P", "-", "1">>}

InitFn ==
    /\ variant = "bot"
    /\ env_DRY_RUN = "false"
    /\ env_KEYWORDS \in {<<>>, <<"z">>, <<"z", ",", "p", "-">>}
    /\ env_USERNAME = ""
    /\ flag_dry_run = FALSE
    /\ env_PROJECT_KEY \in {<<"P">>, <<"P", "P">>}
    /\ \E probe \in TextsUpTo(FnAlphabet, MaxTextLen) :
       \E slot \in {"title", "description", "note"} :
       \E other \in FnOthers :
        /\ gitlabMRs = <<MR(1, IF slot = "title" THEN probe ELSE <<"x">>,
                               IF slot = "description" THEN probe
                               ELSE IF slot = "title" THEN other ELSE <<>>,
                               "renovate[bot]")>>
        /\ gitlabNotes = [k \in {1} |-> IF slot = "note" THEN <<<<"x">>, probe>>
                                        ELSE IF slot = "title" THEN <<>>
                                        ELSE <<<<"x">>, other>>]
    /\ linkedAtStart = LinkedNow(gitlabMRs, gitlabNotes, env_PROJECT_KEY)
    /\ InitRun("main")

SpecFn == InitFn /\ [][Next]_vars

\* ------------------------------------------------ reading the trace
Events(op, i) == {k \in 1..Len(trace) : trace[k].op = op /\ trace[k].i = i}

EventsWith(op, i, res) == {k \in Events(op, i) : trace[k].res = res}

Requests(i) == Events("POST issue", i) \cup Events("POST notes", i)

Calls(i) == Events("createJiraIssue", i) \cup Events("commentOnMR", i)

LoopPcs == {"loop", "mrHasLinkedJira", "notes", "createJiraIssue", "commentOnMR", "v1_loop"}

\* ================================================================ claims

\* what the policy does with the merge request at position i of a finished run
Filtered(i) == EventsWith("containsKeyword", i, "true") # {}

Detected(i) ==
    \/ EventsWith("hasJiraKey(title)", i, "true") # {}
    \/ EventsWith("hasJiraKey(description)", i, "true") # {}
    \/ EventsWith("hasJiraKey(notes)", i, "true") # {}

NotesFailed(i) == EventsWith("GET notes", i, "err") # {}

NoAction(i) == Calls(i) = {} /\ Requests(i) = {}

\* one createJiraIssue; after its success one commentOnMR, whose text holds the key
CreatedThenCommented(i) ==
    /\ Cardinality(Events("createJiraIssue", i)) = 1
    /\ LET c == CHOOSE k \in Events("createJiraIssue", i) : TRUE
       IN  IF trace[c].res = "ok"
           THEN /\ Cardinality(Events("commentOnMR", i)) = 1
                /\ \A k \in Events("commentOnMR", i) :
                     k > c /\ Contains(trace[k].text, trace[c].text)
                /\ \A k \in Events("POST notes", i) :
                     k > c /\ Contains(trace[k].text, trace[c].text)
           ELSE Events("commentOnMR", i) = {} /\ Events("POST notes", i) = {}

\* a comment only after a successful createJiraIssue for the same position
CommentOnlyAfterIssue ==
    \A k \in 1..Len(trace) :
        trace[k].op \in {"commentOnMR", "POST notes"} =>
            \E c \in 1..(k - 1) : /\ trace[c].op = "createJiraIssue"
                                  /\ trace[c].i = trace[k].i
                                  /\ trace[c].res = "ok"

PolicyAt(i) ==
    IF Filtered(i) THEN NoAction(i)
    ELSE IF Detected(i) THEN NoAction(i)
    ELSE IF NotesFailed(i) THEN NoAction(i)
    ELSE CreatedThenCommented(i)

\* C1 as stated: in a finished run every merge request that is neither
\* keyword-filtered nor found linked gets exactly one createJiraIssue and, after
\* its success, one comment that holds the returned key.
C1_AsStated ==
    /\ CommentOnlyAfterIssue
    /\ (variant = "bot" /\ pc = "done") =>
        \A i \in 1..Len(mrs) :
            IF Filtered(i) THEN NoAction(i)
            ELSE IF Detected(i) THEN NoAction(i)
            ELSE CreatedThenCommented(i)

\* C1, amended: as C1, where a merge request whose notes could not be fetched
\* is skipped too, with no issue and no comment; a comment is never made
\* without a successful createJiraIssue for the same merge request before it.
C1_DecisionPolicy ==
    /\ CommentOnlyAfterIssue
    /\ (variant = "bot" /\ pc = "done") => \A i \in 1..Len(mrs) : PolicyAt(i)

C1_Witness ==
    /\ pc = "done"
    /\ ~dryRun
    /\ Len(mrs) = MaxMRs
    /\ \E i \in 1..Len(mrs) : /\ EventsWith("createJiraIssue", i, "ok") # {}
                             /\ EventsWith("POST notes", i, "ok") # {}
    /\ \E i \in 1..Len(mrs) : NotesFailed(i)

\* C2: with KEYWORDS_TO_SKIP unset or empty, containsKeyword is false for every
\* merge request, so no merge request is skipped by the keyword filter.
C2_EmptyNeverFilters ==
    env_KEYWORDS = <<>> => \A i \in 1..Len(mrs) : ~Filtered(i)

\* C3: when mrHasLinkedJira has returned without an error, it returned true
\* if and only if the title, the description or a note holds a substring
\* <prefix>-<one or more digits>.  (Read in the state right after the return,
\* where the last event is the detector's answer.)
C3_Detector ==
    (trace # <<>> /\ env_PROJECT_KEY # <<>>) =>
        LET e == trace[Len(trace)]
            answered == \/ e.op = "hasJiraKey(notes)"
                        \/ e.op \in {"hasJiraKey(title)", "hasJiraKey(description)"}
                           /\ e.res = "true"
        IN  answered =>
                ((e.res = "true") <=>
                     Linked(mrs[e.i], gitlabNotes[mrs[e.i].iid], env_PROJECT_KEY))

\* the detector answered true for a key that stands inside the last note only
C3_Witness ==
    /\ trace # <<>>
    /\ trace[Len(trace)].op = "hasJiraKey(notes)"
    /\ trace[Len(trace)].res = "true"
    /\ Len(gitlabNotes[1]) = 2
    /\ ~MatchesAt(gitlabNotes[1][2], 1, env_PROJECT_KEY)
    /\ ~HoldsKey(mrs[1].title, env_PROJECT_KEY)
    /\ ~HoldsKey(mrs[1].description, env_PROJECT_KEY)

\* C4: while the dry-run toggle of the run is on, no request to create an
\* issue and no request to post a comment has been sent, and Jira holds no
\* issue of the job.
C4_DryRunNoWrites ==
    (dryRun /\ pc \notin {"main", "v1_main"}) =>
        /\ \A k \in 1..Len(trace) : trace[k].op \notin {"POST issue", "POST notes"}
        /\ jiraIssues = <<>>

\* a finished dry run that reported an issue it would create
C4_Witness ==
    /\ dryRun
    /\ pc = "done"
    /\ \E i \in 1..Len(mrs) : EventsWith("createJiraIssue", i, "ok") # {}

\* C5: a failure on one merge request (notes fetch, issue creation, comment)
\* skips that merge request only: the run never aborts inside the loop and the
\* loop moves by at most one position; every run that enters the loop reaches
\* its end, where every position has been handled by the same policy; and a
\* failed notes fetch or issue creation leaves the merge request without comment.
C5_Handled(i) ==
    IF variant = "bot"
    THEN Events("containsKeyword", i) # {} /\ PolicyAt(i)
    ELSE Cardinality(Events("createJiraIssue", i)) = 1

C5_State ==
    /\ pc = "done" => \A i \in 1..Len(mrs) : C5_Handled(i)
    /\ \A i \in 1..Len(mrs) :
         (NotesFailed(i) \/ EventsWith("createJiraIssue", i, "err") # {}) =>
             Events("commentOnMR", i) = {} /\ Events("POST notes", i) = {}

C5_Step ==
    pc \in LoopPcs =>
        /\ pc' \in LoopPcs \cup {"done"}
        /\ exitCode' \in {-1, 0}
        /\ mrs' = mrs
        /\ idx' \in {idx, idx + 1}

C5_ContinueOnError ==
    /\ []C5_State
    /\ [][C5_Step]_vars
    /\ (pc \in LoopPcs) ~> (pc = "done")

\* a finished run in which the first merge request failed and the last was handled
C5_Witness ==
    /\ pc = "done"
    /\ Len(mrs) = MaxMRs
    /\ \/ NotesFailed(1)
       \/ EventsWith("POST issue", 1, "err") # {}
       \/ EventsWith("POST notes", 1, "err") # {}
    /\ Events("createJiraIssue", Len(mrs)) # {}

\* C6: when listing the open merge requests fails (transport error, a status
\* other than 200, or a body that is no JSON list), the run ends with a
\* non-zero exit status and nothing else is requested: no notes, no issue, no comment.
C6_ListFailureIsFatal ==
    \A k \in 1..Len(trace) :
        (trace[k].op = "GET merge_requests" /\ trace[k].res # "200, JSON list") =>
            /\ pc = "exit"
            /\ exitCode \notin {-1, 0}
            /\ Len(trace) = 1

\* C7: in a second or later run, a merge request that held a ticket key when
\* the run started gets no createJiraIssue, no comment and no request.
C7_Idempotent ==
    run >= 2 => \A i \in 1..Len(mrs) : mrs[i].iid \in linkedAtStart => NoAction(i)

\* the second run has finished, and it answered that the merge request the
\* first run created an issue for and commented is linked
C7_Witness ==
    /\ run = 2
    /\ pc = "done"
    /\ \E i \in 1..Len(mrs) :
        /\ mrs[i].iid \in linkedAtStart
        /\ EventsWith("hasJiraKey(notes)", i, "true") # {}
        /\ \E k \in 1..Len(jiraIssues) :
            /\ jiraIssues[k].description = mrs[i].web_url
            /\ \E n \in 1..Len(gitlabNotes[mrs[i].iid]) :
                 gitlabNotes[mrs[i].iid][n] = commentText(jiraIssues[k].key)

\* C8: the keyword filter answers before the title is looked at, the title
\* before the description, the description before the notes are requested, each
\* only after the one before answered no; so a merge request that is
\* keyword-filtered or holds a key in its title or description causes no notes
\* request: the notes are requested only for one that is neither.  (The
\* second part is read in the state right after the request, where the
\* request is the last event or the one before the detector's answer.)
C8_Before(k, op, res) ==
    /\ k >= 2
    /\ trace[k - 1].i = trace[k].i
    /\ trace[k - 1].op = op
    /\ trace[k - 1].res = res

C8_InOrder(k) ==
    CASE trace[k].op = "hasJiraKey(title)" -> C8_Before(k, "containsKeyword", "false")
      [] trace[k].op = "hasJiraKey(description)" -> C8_Before(k, "hasJiraKey(title)", "false")
      [] trace[k].op = "GET notes" -> C8_Before(k, "hasJiraKey(description)", "false")
      [] trace[k].op = "hasJiraKey(notes)" -> C8_Before(k, "GET notes", "ok")
      [] OTHER -> TRUE

C8_CheckOrder ==
    /\ \A k \in 1..Len(trace) : C8_InOrder(k)
    /\ \A k \in {Len(trace) - 1, Len(trace)} \cap (1..Len(trace)) :
        trace[k].op = "GET notes" =>
            /\ ~containsKeyword(mrs[trace[k].i], env_KEYWORDS)
            /\ ~HoldsKey(mrs[trace[k].i].title, env_PROJECT_KEY)
            /\ ~HoldsKey(mrs[trace[k].i].description, env_PROJECT_KEY)

\* a finished run that requested the notes of one merge request and answered
\* from the title or the description of another
C8_Witness ==
    /\ pc = "done"
    /\ \E i \in 1..Len(mrs) : Events("GET notes", i) # {}
    /\ \E i \in 1..Len(mrs) :
        /\ \/ EventsWith("hasJiraKey(title)", i, "true") # {}
           \/ EventsWith("hasJiraKey(description)", i, "true") # {}
        /\ Events("GET notes", i) = {}

\* C9: over the runs of the job, Jira holds at most one issue created for any
\* one merge request.
C9_AtMostOneIssue ==
    \A m \in 1..Len(gitlabMRs) :
        Cardinality({k \in 1..Len(jiraIssues) :
                        jiraIssues[k].description = gitlabMRs[m].web_url}) <= 1

\* C10: a run sends a write request only if DRY_RUN is set to a value that
\* parses as false.
C10_WritesOnlyOnExplicitFalse ==
    (\E k \in 1..Len(trace) : trace[k].op \in {"POST issue", "POST notes"}) =>
        env_DRY_RUN \in {"0", "f", "F", "FALSE", "false", "False"}

====
